---- MODULE Spec2Model ----
(***************************************************************************)
(* Model of SolanaRepoScanner (src/analyze.py): URL parsing, the fetches,  *)
(* the six heuristic checks, the final clamp and the risk classifier.      *)
(*                                                                         *)
(* Strings the code inspects character by character (the repository URL,   *)
(* owner and name) are sequences of one-character strings.  Texts the code *)
(* only searches for fixed keywords (description, README) are records      *)
(* [contains, length]: the set of keywords that occur in the lower-cased   *)
(* text and the number of characters of the text.                          *)
(***************************************************************************)
EXTENDS Integers, Sequences, FiniteSets, Bags, TLC

\* ------------------------------------------------------------------ bounds
\* Longest URL of the URL specification, in pieces of UrlPieces.
MaxPieces == 4

\* ------------------------------------------------------------ characters
P_https == <<"h", "t", "t", "p", "s", ":", "/", "/">>
P_host == <<"g", "i", "t", "h", "u", "b", ".", "c", "o", "m">>
P_other == <<"x", ".", "i", "o">>
P_slash == <<"/">>
P_git == <<".", "g", "i", "t">>
P_o == <<"o">>
P_r == <<"r">>
P_Solana == <<"S", "o", "l", "a", "n", "a">>

\* "github.com/" of the pattern r"github\.com/([^/]+)/([^/]+)"
GithubPrefix == P_host \o P_slash

\* str.lower() on the characters of the model's alphabet
LowerChar(c) == IF c = "S" THEN "s" ELSE c

Lower(s) == [i \in 1..Len(s) |-> LowerChar(s[i])]

\* needle in hay (Python's substring test) on character sequences
Contains(needle, hay) ==
    \E i \in 1..(Len(hay) - Len(needle) + 1) :
        SubSeq(hay, i, i + Len(needle) - 1) = needle

\* Last index of the run of non-"/" characters of s that starts at k
\* (k - 1 when the run is empty): what the greedy [^/]+ consumes.
RunEnd(s, k) ==
    LET stops == {j \in k..Len(s) : s[j] = "/"}
    IN  IF stops = {} THEN Len(s)
        ELSE (CHOOSE j \in stops : \A m \in stops : j <= m) - 1

\* The pattern without its second group: r"github\.com/([^/]+)".
MatchAt_owner_only(s, i) ==
    LET o1 == i + Len(GithubPrefix)
    IN  /\ i + Len(GithubPrefix) - 1 <= Len(s)
        /\ SubSeq(s, i, i + Len(GithubPrefix) - 1) = GithubPrefix
        /\ RunEnd(s, o1) >= o1

\* The pattern matches with "github.com/" starting at index i.
MatchAt(s, i) ==
    LET o1 == i + Len(GithubPrefix)
        e1 == RunEnd(s, o1)
    IN  /\ i + Len(GithubPrefix) - 1 <= Len(s)
        /\ SubSeq(s, i, i + Len(GithubPrefix) - 1) = GithubPrefix
        /\ e1 >= o1
        /\ e1 + 1 <= Len(s)
        /\ s[e1 + 1] = "/"
        /\ RunEnd(s, e1 + 2) >= e1 + 2

\* re.search: is there a match, and the groups of the leftmost one.
HasMatch(s) == \E i \in 1..Len(s) : MatchAt(s, i)

MatchStart(s) == CHOOSE i \in 1..Len(s) : MatchAt(s, i) /\ \A j \in 1..(i - 1) : ~MatchAt(s, j)

Group1(s) ==
    LET o1 == MatchStart(s) + Len(GithubPrefix)
    IN  SubSeq(s, o1, RunEnd(s, o1))

Group2(s) ==
    LET o1 == MatchStart(s) + Len(GithubPrefix)
        o2 == RunEnd(s, o1) + 2
    IN  SubSeq(s, o2, RunEnd(s, o2))

\* str.replace(".git", ""): every non-overlapping occurrence, left to right.
RECURSIVE ReplaceGit(_)
ReplaceGit(s) ==
    IF Len(s) < Len(P_git) THEN s
    ELSE IF SubSeq(s, 1, Len(P_git)) = P_git
         THEN ReplaceGit(SubSeq(s, Len(P_git) + 1, Len(s)))
         ELSE <<Head(s)>> \o ReplaceGit(Tail(s))

\* parse_url: [ok, owner, repo]
parse_url(url) ==
    IF ~HasMatch(url)
    THEN [ok |-> FALSE, owner |-> <<>>, repo |-> <<>>]
    ELSE [ok |-> TRUE, owner |-> Group1(url), repo |-> ReplaceGit(Group2(url))]

\* ------------------------------------------------------------ fetched data
\* Outcome of one requests.get: status 200, another status, or an exception.
Outcomes == {"ok", "status", "exc"}

Text(kw, n) == [contains |-> kw, length |-> n]

\* keyword in text, on a lower-cased text
TextContains(kw, text) == kw \in text.contains

marketing_terms ==
    {"world's first", "revolutionary", "game-changing", "unprecedented",
     "next-generation", "cutting-edge", "industry-leading", "paradigm shift",
     "disruptive", "groundbreaking", "80%", "10x", "100x"}

funding_keywords ==
    {"seeking", "grant", "subsidy", "funding", "donate",
     "support us", "contribute financially", "sponsorship"}

token_keywords == {"buy our token", "token sale", "ico", "presale", "airdrop"}

marker_files == {"Anchor.toml", "Cargo.toml", "package.json"}

\* repo_data.get("description") is None or "": the code reads it as "".
NoDescription == Text({}, 0)

\* One commit of the list: author email, and the author date as the number
\* of whole days between it and the scan (date_ok: strptime accepts it).
Commit(email, ok, days) == [email |-> email, date_ok |-> ok, days |-> days]

\* A commit list of n commits, most recent first.  authors = 1: one author;
\* authors = 2: two authors alternate; authors = 3: a second author appears
\* only after the first 50 commits.
MkCommits(n, authors, ok, days) ==
    [i \in 1..n |->
        Commit(IF authors = 2 /\ i % 2 = 0 THEN "b@x"
               ELSE IF authors = 3 /\ i > 50 THEN "b@x"
               ELSE "a@x",
               ok, days + (i - 1))]

\* ------------------------------------------------------------ the checks
\* A check reads the fetched data and changes st = [score, red_flags,
\* requests]: requests is the list of endpoints asked so far.

\* self.red_flags.append(...); self.score -= delta
Penalty(st, msg, args, delta) ==
    [st EXCEPT !.red_flags = Append(@, [msg |-> msg, args |-> args]),
               !.score = @ - delta]

Request(st, endpoint) == [st EXCEPT !.requests = Append(@, endpoint)]

\* The commit-count check made to skip a flag it has already appended.
CommitVolume_once(st, commits) ==
    LET commit_count == Len(commits)
        seen(m) == \E i \in 1..Len(st.red_flags) : st.red_flags[i].msg = m
    IN  IF commit_count < 3
        THEN IF seen("Only N commits - extremely suspicious") THEN st
             ELSE Penalty(st, "Only N commits - extremely suspicious", <<commit_count>>, 35)
        ELSE IF commit_count < 10
        THEN IF seen("Only N commits - suspiciously low for production code") THEN st
             ELSE Penalty(st, "Only N commits - suspiciously low for production code", <<commit_count>>, 25)
        ELSE IF commit_count < 25
        THEN IF seen("N commits - below average for established project") THEN st
             ELSE Penalty(st, "N commits - below average for established project", <<commit_count>>, 15)
        ELSE st

\* Check 1 of check_commit_patterns: commit count
CommitVolume(st, commits) ==
    LET commit_count == Len(commits)
    IN  IF commit_count < 3
        THEN Penalty(st, "Only N commits - extremely suspicious", <<commit_count>>, 35)
        ELSE IF commit_count < 10
        THEN Penalty(st, "Only N commits - suspiciously low for production code", <<commit_count>>, 25)
        ELSE IF commit_count < 25
        THEN Penalty(st, "N commits - below average for established project", <<commit_count>>, 15)
        ELSE st

\* Check 2 of check_commit_patterns: recency of commits[0]
CommitRecency(st, commits) ==
    IF commits = <<>> THEN st
    ELSE IF ~commits[1].date_ok THEN st
    ELSE LET days_since_last_commit == commits[1].days
         IN  IF days_since_last_commit > 365
             THEN Penalty(st, "Abandoned: Last commit was N days ago", <<days_since_last_commit>>, 30)
             ELSE IF days_since_last_commit > 180
             THEN Penalty(st, "Stale: Last commit was N days ago", <<days_since_last_commit>>, 20)
             ELSE IF days_since_last_commit > 90
             THEN Penalty(st, "Inactive: Last commit was N days ago", <<days_since_last_commit>>, 10)
             ELSE st

\* The slice written [:1].
FirstCommits_first_only(commits) == SubSeq(commits, 1, IF Len(commits) < 1 THEN Len(commits) ELSE 1)

\* self.commits[:50]
FirstCommits(commits) == SubSeq(commits, 1, IF Len(commits) < 50 THEN Len(commits) ELSE 50)

\* Check 3 of check_commit_patterns: single contributor
SingleContributor(st, commits) ==
    LET commit_count == Len(commits)
        authors == {FirstCommits(commits)[i].email : i \in 1..Len(FirstCommits(commits))}
    IN  IF commit_count >= 5 /\ Cardinality(authors) = 1 /\ commit_count > 20
        THEN Penalty(st, "Single contributor with many commits - may indicate copied project", <<>>, 15)
        ELSE st

check_commit_patterns(st, commits) ==
    SingleContributor(CommitRecency(CommitVolume(st, commits), commits), commits)

StarsCheck(st, stars) ==
    IF stars = 0 THEN Penalty(st, "0 stars - no community validation", <<>>, 20)
    ELSE IF stars < 5 THEN Penalty(st, "Only N stars - minimal community interest", <<stars>>, 10)
    ELSE st

\* The fork-count penalty without its flag.
ForksCheck_no_flag(st, forks) ==
    IF forks = 0 THEN [st EXCEPT !.score = @ - 15]
    ELSE st

ForksCheck(st, forks) ==
    IF forks = 0 THEN Penalty(st, "0 forks - no community contribution or trust", <<>>, 15)
    ELSE st

IsForkCheck(st, fork) ==
    IF fork THEN Penalty(st, "Repository is a fork - may not be original work", <<>>, 10)
    ELSE st

check_community_engagement(st, data) ==
    IsForkCheck(ForksCheck(StarsCheck(st, data.stargazers_count), data.forks_count), data.fork)

\* The ratio computed with the floor division total_loc // commit_count.
RatioAbove_floor(total_loc, commit_count, t) == total_loc \div commit_count > t

\* loc_per_commit = total_loc / commit_count compared with a threshold:
\* on integers, total_loc / commit_count > t iff total_loc > t * commit_count.
RatioAbove(total_loc, commit_count, t) == total_loc > t * commit_count

\* sum(languages.values()), the sizes listed as a sequence
RECURSIVE SumSeq(_)
SumSeq(q) == IF q = <<>> THEN 0 ELSE Head(q) + SumSeq(Tail(q))

check_code_to_commit_ratio(st, commits, resp) ==
    LET s1 == Request(st, "languages")
        total_loc == SumSeq(resp.languages)
        commit_count == Len(commits)
    IN  IF resp.outcome # "ok" THEN s1
        ELSE IF ~(total_loc > 0 /\ commit_count > 0) THEN s1
        ELSE IF RatioAbove(total_loc, commit_count, 50000)
        THEN Penalty(s1, "Extreme code-to-commit ratio - likely copy-pasted", <<total_loc, commit_count>>, 40)
        ELSE IF RatioAbove(total_loc, commit_count, 10000)
        THEN Penalty(s1, "High code-to-commit ratio - suspicious", <<total_loc, commit_count>>, 25)
        ELSE IF RatioAbove(total_loc, commit_count, 5000)
        THEN Penalty(s1, "Elevated code-to-commit ratio - review recommended", <<total_loc, commit_count>>, 15)
        ELSE s1

\* Description part of check_description_and_readme
MarketingCheck(st, description) ==
    LET marketing_count == Cardinality({t \in marketing_terms : TextContains(t, description)})
    IN  IF marketing_count >= 2
        THEN Penalty(st, "Heavy marketing language in description (N buzzwords)", <<marketing_count>>, 15)
        ELSE IF marketing_count = 1
        THEN Penalty(st, "Marketing buzzwords detected in description", <<>>, 8)
        ELSE st

FundingCheck(st, readme) ==
    LET funding_count == Cardinality({k \in funding_keywords : TextContains(k, readme)})
    IN  IF funding_count >= 3
        THEN Penalty(st, "Heavy funding-seeking language in README (N instances)", <<funding_count>>, 20)
        ELSE IF funding_count >= 2
        THEN Penalty(st, "Funding-seeking language detected in README", <<>>, 12)
        ELSE st

TokenCheck(st, readme) ==
    IF \E k \in token_keywords : TextContains(k, readme)
    THEN Penalty(st, "Token sale/ICO language detected - potential scam", <<>>, 25)
    ELSE st

ReadmeLengthCheck(st, readme) ==
    IF readme.length < 200
    THEN Penalty(st, "Very short README - insufficient documentation", <<>>, 10)
    ELSE st

\* The body of the first try block once the main-branch response is there.
ReadmeContentChecks(st, readme) ==
    ReadmeLengthCheck(TokenCheck(FundingCheck(st, readme), readme), readme)

\* The except branch: the master-branch attempt.
ReadmeFallback(st, master) ==
    LET s1 == Request(st, "readme_master")
    IN  IF master.outcome = "status"
        THEN Penalty(s1, "No README.md found - poor documentation", <<>>, 15)
        ELSE s1

\* README part: the except branch runs only when the first requests.get
\* raises; a response with another status than 200 falls through the if.
ReadmeCheck(st, main, master) ==
    LET s1 == Request(st, "readme_main")
    IN  IF main.outcome = "ok" THEN ReadmeContentChecks(s1, main.text)
        ELSE IF main.outcome = "exc" THEN ReadmeFallback(s1, master)
        ELSE s1

check_description_and_readme(st, data, main, master) ==
    ReadmeCheck(MarketingCheck(st, data.description), main, master)

\* files = [item['name'] for item in response.json() if item['type'] == 'file']
FileNames(items) == {it.name : it \in {x \in items : x.type = "file"}}

Solana == <<"s", "o", "l", "a", "n", "a">>

check_solana_specific_indicators(st, data, repo, resp) ==
    LET s1 == Request(st, "contents")
        files == FileNames(resp.items)
    IN  IF resp.outcome # "ok" THEN s1
        ELSE IF /\ \/ TextContains("solana", data.description)
                   \/ Contains(Solana, Lower(repo))
                /\ files \cap marker_files = {}
        THEN Penalty(s1, "Claims to be Solana project but missing Anchor/Cargo/package.json", <<>>, 20)
        ELSE s1

\* The flag assigned to red_flags instead of appended.
check_license_and_docs_assign(st, data) ==
    IF ~data.has_license
    THEN [st EXCEPT !.red_flags = <<[msg |-> "No license - unprofessional or incomplete project",
                                     args |-> <<>>]>>,
                    !.score = @ - 10]
    ELSE st

check_license_and_docs(st, data) ==
    IF ~data.has_license
    THEN Penalty(st, "No license - unprofessional or incomplete project", <<>>, 10)
    ELSE st

\* The classifier with strict comparisons.
get_risk_level_strict(score) ==
    IF score > 80 THEN "LOW RISK"
    ELSE IF score > 60 THEN "MEDIUM-LOW RISK"
    ELSE IF score > 40 THEN "MEDIUM-HIGH RISK"
    ELSE IF score > 20 THEN "HIGH RISK"
    ELSE "CRITICAL RISK"

get_risk_level(score) ==
    IF score >= 80 THEN "LOW RISK"
    ELSE IF score >= 60 THEN "MEDIUM-LOW RISK"
    ELSE IF score >= 40 THEN "MEDIUM-HIGH RISK"
    ELSE IF score >= 20 THEN "HIGH RISK"
    ELSE "CRITICAL RISK"

Max(a, b) == IF a >= b THEN a ELSE b
Min(a, b) == IF a <= b THEN a ELSE b

\* The clamp without its lower bound.
Clamp_upper_only(score) == Min(100, score)

\* self.score = max(0, min(100, self.score))
Clamp(score) == Max(0, Min(100, score))

\* ------------------------------------------------------------------ state
VARIABLES
    repo_url,    \* self.repo_url
    owner,       \* self.owner (<<>> stands for None)
    repo,        \* self.repo (<<>> before parse_url)
    repo_data,   \* self.repo_data: <<>> for None, <<data>> once fetched
    commits,     \* self.commits
    red_flags,   \* self.red_flags
    score,       \* self.score
    requests,    \* the endpoints asked with requests.get, in order
    env,         \* what each endpoint answers during this scan
    order,       \* the checks in the order they are invoked
    idx,         \* position in order of the next check
    pc,          \* position in analyze()
    result       \* the value analyze() returned

vars == <<repo_url, owner, repo, repo_data, commits, red_flags, score,
          requests, env, order, idx, pc, result>>

\* analyze() lines 328-333
CanonicalOrder ==
    <<"commit_patterns", "community_engagement", "code_to_commit_ratio",
      "description_and_readme", "solana_specific_indicators", "license_and_docs">>

CheckNames == {CanonicalOrder[i] : i \in 1..Len(CanonicalOrder)}

St == [score |-> score, red_flags |-> red_flags, requests |-> requests]

\* One check applied to st with the scanner's fetched data.
ApplyCheck(name, st, data, cs, rp, e) ==
    CASE name = "commit_patterns" -> check_commit_patterns(st, cs)
      [] name = "community_engagement" -> check_community_engagement(st, data)
      [] name = "code_to_commit_ratio" -> check_code_to_commit_ratio(st, cs, e.languages)
      [] name = "description_and_readme" ->
            check_description_and_readme(st, data, e.readme_main, e.readme_master)
      [] name = "solana_specific_indicators" ->
            check_solana_specific_indicators(st, data, rp, e.contents)
      [] name = "license_and_docs" -> check_license_and_docs(st, data)

\* SolanaRepoScanner.__init__
InitScanner ==
    /\ owner = <<>>
    /\ repo = <<>>
    /\ repo_data = <<>>
    /\ commits = <<>>
    /\ red_flags = <<>>
    /\ score = 100
    /\ requests = <<>>
    /\ idx = 1
    /\ pc = "parse_url"
    /\ result = [pending |-> TRUE]

\* analyze() lines 319-320, with parse_url
ParseUrl ==
    /\ pc = "parse_url"
    /\ LET p == parse_url(repo_url)
       IN  IF p.ok
           THEN /\ owner' = p.owner
                /\ repo' = p.repo
                /\ pc' = "fetch_repo_data"
                /\ UNCHANGED result
           ELSE /\ result' = [error |-> "Invalid URL"]
                /\ pc' = "returned"
                /\ UNCHANGED <<owner, repo>>
    /\ UNCHANGED <<repo_url, repo_data, commits, red_flags, score, requests, env, order, idx>>

\* fetch_repo_data without its status test: any answer is taken as data.
FetchRepoData_no_status_test ==
    /\ pc = "fetch_repo_data"
    /\ requests' = Append(requests, "repos")
    /\ repo_data' = <<env.repos.data>>
    /\ pc' = "fetch_commits"
    /\ UNCHANGED <<repo_url, owner, repo, commits, red_flags, score, env, order, idx, result>>

\* analyze() lines 322-323, with fetch_repo_data
FetchRepoData ==
    /\ pc = "fetch_repo_data"
    /\ requests' = Append(requests, "repos")
    /\ IF env.repos.outcome = "ok"
       THEN /\ repo_data' = <<env.repos.data>>
            /\ pc' = "fetch_commits"
            /\ UNCHANGED result
       ELSE /\ result' = [error |-> "Failed to fetch repository data"]
            /\ pc' = "returned"
            /\ UNCHANGED repo_data
    /\ UNCHANGED <<repo_url, owner, repo, commits, red_flags, score, env, order, idx>>

\* analyze() line 325, with fetch_commits: the return value is not used
FetchCommits ==
    /\ pc = "fetch_commits"
    /\ requests' = Append(requests, "commits")
    /\ commits' = IF env.commits.outcome = "ok" THEN env.commits.commits ELSE commits
    /\ pc' = "checks"
    /\ UNCHANGED <<repo_url, owner, repo, repo_data, red_flags, score, env, order, idx, result>>

\* The check called at position idx of order.
RunCheck(name) ==
    /\ idx <= Len(order)
    /\ order[idx] = name
    /\ LET st == ApplyCheck(name, St, repo_data[1], commits, repo, env)
       IN  /\ score' = st.score
           /\ red_flags' = st.red_flags
           /\ requests' = st.requests
    /\ idx' = idx + 1
    /\ pc' = IF idx = Len(order) THEN "clamp" ELSE "checks"
    /\ UNCHANGED <<repo_url, owner, repo, repo_data, commits, env, order, result>>

CheckCommitPatterns ==
    /\ pc = "checks"
    /\ RunCheck("commit_patterns")

CheckCommunityEngagement ==
    /\ pc = "checks"
    /\ RunCheck("community_engagement")

CheckCodeToCommitRatio ==
    /\ pc = "checks"
    /\ RunCheck("code_to_commit_ratio")

CheckDescriptionAndReadme ==
    /\ pc = "checks"
    /\ RunCheck("description_and_readme")

CheckSolanaSpecificIndicators ==
    /\ pc = "checks"
    /\ RunCheck("solana_specific_indicators")

CheckLicenseAndDocs ==
    /\ pc = "checks"
    /\ RunCheck("license_and_docs")


\* analyze() lines 335-353: clamp, classify, return
Finish ==
    /\ pc = "clamp"
    /\ score' = Clamp(score)
    /\ result' = [score |-> Clamp(score),
                  risk_level |-> get_risk_level(Clamp(score)),
                  red_flags |-> red_flags,
                  metadata |-> [stars |-> repo_data[1].stargazers_count,
                                forks |-> repo_data[1].forks_count,
                                commits |-> Len(commits),
                                language |-> repo_data[1].language]]
    /\ pc' = "returned"
    /\ UNCHANGED <<repo_url, owner, repo, repo_data, commits, red_flags, requests, env, order, idx>>

Next ==
    \/ ParseUrl
    \/ FetchRepoData
    \/ FetchCommits
    \/ CheckCommitPatterns
    \/ CheckCommunityEngagement
    \/ CheckCodeToCommitRatio
    \/ CheckDescriptionAndReadme
    \/ CheckSolanaSpecificIndicators
    \/ CheckLicenseAndDocs
    \/ Finish

\* ------------------------------------------------------------------ inputs
RepoData(stars, forks, fork, lic, desc) ==
    [stargazers_count |-> stars, forks_count |-> forks, fork |-> fork,
     has_license |-> lic, description |-> desc, language |-> "Rust"]

StarsValues == {0, 3, 500}
ForksValues == {0, 50}

Descriptions ==
    {NoDescription, Text({"solana"}, 40), Text({"revolutionary"}, 40),
     Text({"solana", "revolutionary", "10x"}, 60)}

RepoDataValues ==
    {RepoData(s, f, k, l, d) : s \in StarsValues, f \in ForksValues,
                               k \in BOOLEAN, l \in BOOLEAN, d \in Descriptions}

\* A response that is not a 200 carries no body the code reads.
RepoResponses ==
    {[outcome |-> "ok", data |-> d] : d \in RepoDataValues}
    \cup {[outcome |-> o, data |-> RepoData(0, 0, FALSE, FALSE, NoDescription)] : o \in {"status", "exc"}}

CommitLists ==
    {<<>>, MkCommits(2, 1, TRUE, 10), MkCommits(2, 1, FALSE, 400),
     MkCommits(9, 2, TRUE, 100), MkCommits(24, 1, TRUE, 200),
     MkCommits(200, 1, TRUE, 10), MkCommits(200, 2, TRUE, 10),
     MkCommits(200, 3, TRUE, 400)}

CommitResponses ==
    {[outcome |-> "ok", commits |-> c] : c \in CommitLists}
    \cup {[outcome |-> o, commits |-> <<>>] : o \in {"status", "exc"}}

LanguageValues == {<<>>, <<1000>>, <<150000, 50000>>, <<600000>>, <<1200000>>}

LanguageResponses ==
    {[outcome |-> "ok", languages |-> l] : l \in LanguageValues}
    \cup {[outcome |-> o, languages |-> <<>>] : o \in {"status", "exc"}}

ReadmeTexts ==
    {Text({}, 1000), Text({}, 100), Text({"grant", "donate"}, 1000),
     Text({"seeking", "grant", "funding", "token sale"}, 1000)}

ReadmeResponses ==
    {[outcome |-> "ok", text |-> t] : t \in ReadmeTexts}
    \cup {[outcome |-> o, text |-> Text({}, 0)] : o \in {"status", "exc"}}

Item(name, type) == [name |-> name, type |-> type]

Listings ==
    {{}, {Item("Cargo.toml", "file"), Item("src", "dir")},
     {Item("README.md", "file"), Item("package.json", "dir")}}

ContentsResponses ==
    {[outcome |-> "ok", items |-> l] : l \in Listings}
    \cup {[outcome |-> o, items |-> {}] : o \in {"status", "exc"}}

Env(r, c, l, m1, m2, ct) ==
    [repos |-> r, commits |-> c, languages |-> l,
     readme_main |-> m1, readme_master |-> m2, contents |-> ct]

\* The scenarios of the specification's section 8, as repository metadata.
LegitData == RepoData(500, 50, FALSE, TRUE, NoDescription)
ScamData == RepoData(0, 0, FALSE, FALSE, NoDescription)

\* The text of the master-branch README is never read.
MasterResponses ==
    {[outcome |-> "ok", text |-> Text({}, 1000)]}
    \cup {[outcome |-> o, text |-> Text({}, 0)] : o \in {"status", "exc"}}

\* Every metadata value, against a few answers of the other endpoints.
MetadataEnvs ==
    {Env(r, c, l, m1, m2, ct) :
        r \in RepoResponses,
        c \in {[outcome |-> "ok", commits |-> k] :
                  k \in {MkCommits(2, 1, TRUE, 10), MkCommits(200, 2, TRUE, 10)}},
        l \in {[outcome |-> "ok", languages |-> <<1000>>]},
        m1 \in {[outcome |-> "ok", text |-> Text({}, 1000)],
                [outcome |-> "exc", text |-> Text({}, 0)]},
        m2 \in {[outcome |-> "status", text |-> Text({}, 0)]},
        ct \in {[outcome |-> "ok", items |-> l] : l \in Listings}}

\* Every answer of the other endpoints, against a few metadata values.
FetchEnvs ==
    {Env(r, c, l, m1, m2, ct) :
        r \in {[outcome |-> "ok", data |-> d] :
                  d \in {LegitData, ScamData,
                         RepoData(3, 50, TRUE, TRUE, Text({"solana", "revolutionary", "10x"}, 60))}},
        c \in CommitResponses, l \in LanguageResponses,
        m1 \in ReadmeResponses, m2 \in MasterResponses, ct \in ContentsResponses}

AllEnvs == MetadataEnvs \cup FetchEnvs

U_plain == P_https \o P_host \o P_slash \o P_o \o P_slash \o P_r
U_solana == P_host \o P_slash \o P_o \o P_slash \o P_Solana \o P_git
U_other == P_https \o P_other \o P_slash \o P_o \o P_slash \o P_r

Init ==
    /\ InitScanner
    /\ repo_url \in {U_plain, U_solana, U_other}
    /\ env \in AllEnvs
    /\ order = CanonicalOrder

Spec == Init /\ [][Next]_vars

\* ------------------------------------------------- URL specification
\* URLs: an optional protocol, a host part, and up to MaxPieces pieces.
UrlPieces == {P_slash, P_git, P_o, P_r, P_Solana, GithubPrefix}

RECURSIVE Concats(_)
Concats(n) ==
    IF n = 0 THEN {<<>>}
    ELSE Concats(n - 1) \cup {u \o p : u \in Concats(n - 1), p \in UrlPieces}

UrlInputs ==
    {pre \o host \o rest :
        pre \in {<<>>, P_https},
        host \in {<<>>, GithubPrefix, P_host, P_other \o P_slash},
        rest \in Concats(MaxPieces)}

UrlEnvs ==
    {Env(r, c, l, m1, m2, ct) :
        r \in {[outcome |-> "ok", data |-> LegitData],
               [outcome |-> "status", data |-> ScamData]},
        c \in {[outcome |-> "ok", commits |-> MkCommits(30, 2, TRUE, 10)]},
        l \in {[outcome |-> "ok", languages |-> <<1000>>]},
        m1 \in {[outcome |-> "ok", text |-> Text({}, 1000)]},
        m2 \in {[outcome |-> "status", text |-> Text({}, 0)]},
        ct \in {[outcome |-> "ok", items |-> {}]}}

InitUrl ==
    /\ InitScanner
    /\ repo_url \in UrlInputs
    /\ env \in UrlEnvs
    /\ order = CanonicalOrder

SpecUrl == InitUrl /\ [][Next]_vars

\* ----------------------------------------- check-order specification
\* The six checks invoked once each, in any order.
CheckOrders ==
    {q \in [1..Len(CanonicalOrder) -> CheckNames] :
        \A i, j \in 1..Len(CanonicalOrder) : q[i] = q[j] => i = j}

PermEnvs ==
    {Env(r, c, l, m1, m2, ct) :
        r \in {[outcome |-> "ok", data |-> d] :
                  d \in {ScamData,
                         RepoData(3, 50, TRUE, TRUE, Text({"solana", "revolutionary", "10x"}, 60))}}
              \cup {[outcome |-> "exc", data |-> ScamData]},
        c \in {[outcome |-> "ok", commits |-> k] :
                  k \in {MkCommits(2, 1, TRUE, 400), MkCommits(24, 1, TRUE, 10)}},
        l \in {[outcome |-> "ok", languages |-> <<150000, 50000>>],
               [outcome |-> "status", languages |-> <<>>]},
        m1 \in {[outcome |-> "ok", text |-> Text({"seeking", "grant", "funding", "token sale"}, 100)],
                [outcome |-> "exc", text |-> Text({}, 0)]},
        m2 \in {[outcome |-> "status", text |-> Text({}, 0)]},
        ct \in {[outcome |-> "ok", items |-> {}], [outcome |-> "exc", items |-> {}]}}

InitPerm ==
    /\ InitScanner
    /\ repo_url \in {U_plain, U_other}
    /\ env \in PermEnvs
    /\ order \in CheckOrders

SpecPerm == InitPerm /\ [][Next]_vars

\* ------------------------------------------ classifier specification
\* The tests assign scanner.score directly (test_scanner.py lines 74-86
\* and 113-119) before the clamp and get_risk_level are applied.
ScoreInputs == (0 - 50)..150

AssignScore ==
    /\ pc = "clamp"
    /\ score' \in ScoreInputs
    /\ UNCHANGED <<repo_url, owner, repo, repo_data, commits, red_flags,
                   requests, env, order, idx, pc, result>>

NextRisk == Next \/ AssignScore

InitRisk ==
    /\ InitScanner
    /\ repo_url \in {U_plain, U_other}
    /\ env \in UrlEnvs
    /\ order = CanonicalOrder

SpecRisk == InitRisk /\ [][NextRisk]_vars

\* ------------------------------------------------------------ properties
\* The delta the code subtracts together with each flag it appends.
DeltaOf(msg) ==
    CASE msg = "Only N commits - extremely suspicious" -> 35
      [] msg = "Only N commits - suspiciously low for production code" -> 25
      [] msg = "N commits - below average for established project" -> 15
      [] msg = "Abandoned: Last commit was N days ago" -> 30
      [] msg = "Stale: Last commit was N days ago" -> 20
      [] msg = "Inactive: Last commit was N days ago" -> 10
      [] msg = "Single contributor with many commits - may indicate copied project" -> 15
      [] msg = "0 stars - no community validation" -> 20
      [] msg = "Only N stars - minimal community interest" -> 10
      [] msg = "0 forks - no community contribution or trust" -> 15
      [] msg = "Repository is a fork - may not be original work" -> 10
      [] msg = "Extreme code-to-commit ratio - likely copy-pasted" -> 40
      [] msg = "High code-to-commit ratio - suspicious" -> 25
      [] msg = "Elevated code-to-commit ratio - review recommended" -> 15
      [] msg = "Heavy marketing language in description (N buzzwords)" -> 15
      [] msg = "Marketing buzzwords detected in description" -> 8
      [] msg = "Heavy funding-seeking language in README (N instances)" -> 20
      [] msg = "Funding-seeking language detected in README" -> 12
      [] msg = "Token sale/ICO language detected - potential scam" -> 25
      [] msg = "Very short README - insufficient documentation" -> 10
      [] msg = "No README.md found - poor documentation" -> 15
      [] msg = "Claims to be Solana project but missing Anchor/Cargo/package.json" -> 20
      [] msg = "No license - unprofessional or incomplete project" -> 10

RECURSIVE SumDeltas(_)
SumDeltas(flags) ==
    IF flags = <<>> THEN 0 ELSE DeltaOf(Head(flags).msg) + SumDeltas(Tail(flags))

Messages(flags) == {flags[i].msg : i \in 1..Len(flags)}

\* analyze() returned a score (not an error).
Succeeded == pc = "returned" /\ "score" \in DOMAIN result

\* analyze() returned an error.
Failed == pc = "returned" /\ "error" \in DOMAIN result

\* 100 plus the deltas of the flags the checks appended
RawScore == 100 - SumDeltas(red_flags)

\* C1: whenever a scan returns a score, the score is 100 plus the sum of
\* the deltas the checks applied, clamped to [0, 100]: 0 when that sum is
\* below 0, 100 when it is above 100, and so always within 0..100.
C1_ClampedSum ==
    Succeeded =>
        /\ result.score = (IF RawScore < 0 THEN 0 ELSE IF RawScore > 100 THEN 100 ELSE RawScore)
        /\ result.score >= 0
        /\ result.score <= 100
        /\ result.red_flags = red_flags

\* A scan whose unclamped sum is below zero returned 0.
C1_Witness == Succeeded /\ RawScore < 0 /\ result.score = 0

\* The tiers of the table of section 4.3, with their score ranges.
Tiers == {"LOW RISK", "MEDIUM-LOW RISK", "MEDIUM-HIGH RISK", "HIGH RISK", "CRITICAL RISK"}

TierRange(t) ==
    CASE t = "LOW RISK" -> 80..100
      [] t = "MEDIUM-LOW RISK" -> 60..79
      [] t = "MEDIUM-HIGH RISK" -> 40..59
      [] t = "HIGH RISK" -> 20..39
      [] t = "CRITICAL RISK" -> 0..19

\* The tiers whose label contains "LOW".
TiersWithLOW == {"LOW RISK", "MEDIUM-LOW RISK"}

\* C2: the tier returned with a score is the one tier of the table whose
\* range (lower bound included) holds the clamped score, whatever else the
\* scanner holds, and a score of at least 60 has a tier containing "LOW".
C2_TierOfScore ==
    Succeeded =>
        /\ result.score \in 0..100
        /\ {t \in Tiers : result.score \in TierRange(t)} = {result.risk_level}
        /\ (result.score >= 60 => result.risk_level \in TiersWithLOW)
        /\ (result.score < 60 => result.risk_level \notin TiersWithLOW)

\* A score on a lower boundary was classified.
C2_Witness == Succeeded /\ result.score = 60 /\ result.risk_level = "MEDIUM-LOW RISK"

\* url contains github.com/<owner>/<name>: the literal, at least one
\* character other than "/", a "/", and a character other than "/".
HasGithubSubstring(url) ==
    \E i \in 1..(Len(url) - Len(GithubPrefix) - 2) :
        /\ \A k \in 0..(Len(GithubPrefix) - 1) : url[i + k] = GithubPrefix[k + 1]
        /\ \E n \in 1..(Len(url) - i - Len(GithubPrefix) - 1) :
              LET o1 == i + Len(GithubPrefix)
              IN  /\ \A k \in o1..(o1 + n - 1) : url[k] # "/"
                  /\ url[o1 + n] = "/"
                  /\ url[o1 + n + 1] # "/"

\* C3: a URL without a github.com/<owner>/<name> substring never gets past
\* parse_url: no request is ever issued, and what analyze() returns is
\* exactly {error: "Invalid URL"}.
C3_InvalidUrl ==
    ~HasGithubSubstring(repo_url) =>
        /\ requests = <<>>
        /\ pc \in {"parse_url", "returned"}
        /\ (pc = "returned" => result = [error |-> "Invalid URL"])
        /\ score = 100
        /\ red_flags = <<>>

\* A scan of a URL of another host, and one of a URL that stops after the
\* owner, returned.
C3_Witness ==
    /\ pc = "returned"
    /\ ~HasGithubSubstring(repo_url)
    /\ repo_url \in {P_https \o P_other \o P_slash \o P_o \o P_slash \o P_r,
                     P_https \o GithubPrefix \o P_o}

\* parse_url succeeds on the scanner's URL.
UrlParses == HasGithubSubstring(repo_url)

\* C4: when the URL parses and the metadata fetch fails, analyze() returns
\* {error: "Failed to fetch repository data"} after the one request, with
\* score 100 and no flag; and analyze() returns an error only for an
\* invalid URL or a failed metadata fetch.
C4_MetadataFailure ==
    /\ (pc = "returned" /\ UrlParses /\ env.repos.outcome # "ok") =>
            /\ result = [error |-> "Failed to fetch repository data"]
            /\ requests = <<"repos">>
            /\ score = 100
            /\ red_flags = <<>>
            /\ repo_data = <<>>
    /\ (pc = "returned" /\ UrlParses /\ env.repos.outcome = "ok") => Succeeded
    /\ (pc # "returned" /\ env.repos.outcome # "ok") => Len(requests) = 0

\* The metadata fetch failed although every other endpoint would answer.
C4_Witness ==
    /\ Failed
    /\ result.error = "Failed to fetch repository data"
    /\ env.repos.outcome = "exc"
    /\ env.commits.outcome = "ok"
    /\ env.languages.outcome = "ok"
    /\ env.readme_main.outcome = "ok"
    /\ env.contents.outcome = "ok"

CommitMessages ==
    {"Only N commits - extremely suspicious",
     "Only N commits - suspiciously low for production code",
     "N commits - below average for established project",
     "Abandoned: Last commit was N days ago", "Stale: Last commit was N days ago",
     "Inactive: Last commit was N days ago",
     "Single contributor with many commits - may indicate copied project"}

RatioMessages ==
    {"Extreme code-to-commit ratio - likely copy-pasted",
     "High code-to-commit ratio - suspicious",
     "Elevated code-to-commit ratio - review recommended"}

SolanaMessage == "Claims to be Solana project but missing Anchor/Cargo/package.json"

NoReadmeMessage == "No README.md found - poor documentation"

\* C5: a failed secondary fetch causes no flag by itself: after a failed
\* commit fetch the commit list is empty and the result holds no flag of
\* the commit check; after a failed language fetch none of the ratio
\* check; after a failed contents fetch none of the ecosystem check.
C5_FailedFetchNoFlag ==
    Succeeded =>
        /\ env.commits.outcome # "ok" =>
                /\ commits = <<>>
                /\ Messages(result.red_flags) \cap CommitMessages = {}
        /\ env.languages.outcome # "ok" =>
                Messages(result.red_flags) \cap RatioMessages = {}
        /\ env.contents.outcome # "ok" =>
                SolanaMessage \notin Messages(result.red_flags)

Requested(endpoint) == \E i \in 1..Len(requests) : requests[i] = endpoint

\* check_description_and_readme has run (analyze() calls it fourth).
ReadmeCheckDone ==
    \/ pc = "checks" /\ order = CanonicalOrder /\ idx > 4
    \/ pc = "clamp"
    \/ Succeeded

\* C6: once the README check has run, the main branch was asked; the
\* master branch was asked exactly when the main attempt failed (status or
\* network error); and the missing-README flag is there exactly when both
\* attempts fail.
C6_ReadmeFallback ==
    ReadmeCheckDone =>
        /\ Requested("readme_main")
        /\ Requested("readme_master") <=> env.readme_main.outcome # "ok"
        /\ NoReadmeMessage \in Messages(red_flags)
              <=> (env.readme_main.outcome # "ok" /\ env.readme_master.outcome # "ok")

EndsWithGit(name) ==
    /\ Len(name) >= Len(P_git)
    /\ SubSeq(name, Len(name) - Len(P_git) + 1, Len(name)) = P_git

\* C7: after a successful parse the owner is the first group of the match
\* and the name is the second group, without its trailing ".git" when it
\* ends in ".git" and unchanged otherwise.
C7_TrailingGitOnly ==
    (pc # "parse_url" /\ HasMatch(repo_url)) =>
        /\ owner = Group1(repo_url)
        /\ repo = IF EndsWithGit(Group2(repo_url))
                  THEN SubSeq(Group2(repo_url), 1, Len(Group2(repo_url)) - Len(P_git))
                  ELSE Group2(repo_url)

\* The six checks applied in the order ord.
RECURSIVE RunChecks(_, _)
RunChecks(ord, st) ==
    IF ord = <<>> THEN st
    ELSE RunChecks(Tail(ord), ApplyCheck(Head(ord), st, repo_data[1], commits, repo, env))

\* What analyze()'s own order makes of the fetched data.
Canonical ==
    RunChecks(CanonicalOrder,
              [score |-> 100, red_flags |-> <<>>, requests |-> <<"repos", "commits">>])

BagOf(q) ==
    [f \in {q[i] : i \in 1..Len(q)} |-> Cardinality({i \in 1..Len(q) : q[i] = f})]

\* C8: whatever the order in which the six checks ran, the clamped score
\* and the multiset of flags are those of analyze()'s own order on the
\* same fetched data.
C8_OrderIndependent ==
    Succeeded =>
        /\ result.score = (IF Canonical.score < 0 THEN 0 ELSE Canonical.score)
        /\ BagOf(result.red_flags) = BagOf(Canonical.red_flags)

\* Another order gave the same flags in another sequence.
C8_Witness ==
    /\ Succeeded
    /\ order # CanonicalOrder
    /\ Len(result.red_flags) >= 5
    /\ result.red_flags # Canonical.red_flags
    /\ result.score > 0

\* The scam scenario of section 8, its unnamed attributes without effect.
C9_Scenario ==
    /\ UrlParses
    /\ ~Contains(Solana, Lower(repo))
    /\ env.repos.outcome = "ok"
    /\ env.repos.data.stargazers_count = 0
    /\ env.repos.data.forks_count = 0
    /\ ~env.repos.data.has_license
    /\ ~env.repos.data.fork
    /\ env.repos.data.description = NoDescription
    /\ env.commits.outcome = "ok"
    /\ Len(env.commits.commits) = 2
    /\ env.commits.commits[1].date_ok
    /\ env.commits.commits[1].days <= 90
    /\ SumSeq(env.languages.languages) <= 5000 * 2
    /\ env.readme_main.outcome # "ok"
    /\ env.readme_master.outcome # "ok"

\* C9: the scam scenario returns score 5, tier CRITICAL RISK, and the five
\* flags of the scenario.
C9_ScamScenario ==
    (Succeeded /\ C9_Scenario) =>
        /\ result.score = 5
        /\ result.risk_level = "CRITICAL RISK"
        /\ Len(result.red_flags) = 5
        /\ Messages(result.red_flags) =
             {"Only N commits - extremely suspicious", "0 stars - no community validation",
              "0 forks - no community contribution or trust", NoReadmeMessage,
              "No license - unprofessional or incomplete project"}

CleanReadme(resp) ==
    /\ resp.outcome = "ok"
    /\ resp.text.length = 1000
    /\ resp.text.contains \cap (funding_keywords \cup token_keywords) = {}

\* The legitimate scenario of section 8: what it names, nothing else.
C10_Scenario ==
    /\ UrlParses
    /\ env.repos.outcome = "ok"
    /\ env.repos.data.stargazers_count = 500
    /\ env.repos.data.forks_count = 50
    /\ env.repos.data.has_license
    /\ env.repos.data.description.contains \cap marketing_terms = {}
    /\ env.commits.outcome = "ok"
    /\ Len(env.commits.commits) = 200
    /\ env.commits.commits[1].date_ok
    /\ env.commits.commits[1].days = 10
    /\ \/ CleanReadme(env.readme_main)
       \/ env.readme_main.outcome # "ok" /\ CleanReadme(env.readme_master)

\* C10 as claimed: the scenario returns no flag, score 100 and LOW RISK for
\* every value of the attributes it does not name.
C10_LegitScenario ==
    (Succeeded /\ C10_Scenario) =>
        /\ result.red_flags = <<>>
        /\ result.score = 100
        /\ result.risk_level = "LOW RISK"

\* What the unnamed attributes must satisfy for no check to fire.
C10_Unnamed ==
    /\ Cardinality({env.commits.commits[i].email : i \in 1..50}) >= 2
    /\ ~env.repos.data.fork
    /\ \/ env.languages.outcome # "ok"
       \/ SumSeq(env.languages.languages) <= 5000 * 200
    /\ \/ env.contents.outcome # "ok"
       \/ ~("solana" \in env.repos.data.description.contains \/ Contains(Solana, Lower(repo)))
       \/ FileNames(env.contents.items) \cap marker_files # {}

\* C10 amended: the scenario returns no flag, score 100 and LOW RISK when
\* moreover the first 50 commits have two authors or more, the repository
\* is not a fork, the language sizes sum to at most 5000 per commit (or
\* their fetch fails), and the repository does not claim the ecosystem
\* without a marker file (or the contents fetch fails).
C10_LegitScenarioAmended ==
    (Succeeded /\ C10_Scenario /\ C10_Unnamed) =>
        /\ result.red_flags = <<>>
        /\ result.score = 100
        /\ result.risk_level = "LOW RISK"

\* The amended scenario was scanned, with language data and a listing.
C10_Witness ==
    /\ Succeeded
    /\ C10_Scenario
    /\ C10_Unnamed
    /\ env.languages.outcome = "ok"
    /\ SumSeq(env.languages.languages) > 0
    /\ env.contents.outcome = "ok"
    /\ result.score = 100

\* ------------------------------------------------- ratio specification
\* Scans whose language sizes sit on and next to the thresholds of the
\* code-to-commit ratio, for 0, 1, 2 and 10 commits.
RatioThresholds == {5000, 10000, 50000}

RatioCommitLists == {<<>>, MkCommits(1, 1, TRUE, 10), MkCommits(2, 2, TRUE, 10), MkCommits(10, 2, TRUE, 10)}

RatioLanguages ==
    {<<>>, <<0>>, <<600000>>}
    \cup {<<t * c, d>> : t \in RatioThresholds, c \in {1, 2, 10}, d \in {0, 1}}

RatioEnvs ==
    {Env(r, c, l, m1, m2, ct) :
        r \in {[outcome |-> "ok", data |-> LegitData]},
        c \in {[outcome |-> "ok", commits |-> k] : k \in RatioCommitLists},
        l \in {[outcome |-> "ok", languages |-> q] : q \in RatioLanguages}
              \cup {[outcome |-> o, languages |-> <<>>] : o \in {"status", "exc"}},
        m1 \in {[outcome |-> "ok", text |-> Text({}, 1000)]},
        m2 \in {[outcome |-> "status", text |-> Text({}, 0)]},
        ct \in {[outcome |-> "ok", items |-> {}]}}

InitRatio ==
    /\ InitScanner
    /\ repo_url = U_plain
    /\ env \in RatioEnvs
    /\ order = CanonicalOrder

SpecRatio == InitRatio /\ [][Next]_vars

\* total / count > t, on the quotient and the remainder of the division
RatioExceeds(total, count, t) ==
    \/ total \div count > t
    \/ total \div count = t /\ total % count > 0

\* The delta the claim gives for a total size and a commit count.
C11_Delta(total, count) ==
    IF RatioExceeds(total, count, 50000) THEN 40
    ELSE IF RatioExceeds(total, count, 10000) /\ ~RatioExceeds(total, count, 50000) THEN 25
    ELSE IF RatioExceeds(total, count, 5000) /\ ~RatioExceeds(total, count, 10000) THEN 15
    ELSE 0

C11_Message(delta) ==
    CASE delta = 40 -> "Extreme code-to-commit ratio - likely copy-pasted"
      [] delta = 25 -> "High code-to-commit ratio - suspicious"
      [] delta = 15 -> "Elevated code-to-commit ratio - review recommended"

\* C11: the step of check_code_to_commit_ratio subtracts 40, 25, 15 or 0
\* as the ratio of the total size to the commit count lies above 50000, in
\* (10000, 50000], in (5000, 10000] or at most 5000, and appends the one
\* flag of that delta (none for 0); with total size 0, no commit or a
\* failed language fetch it changes neither the score nor the flags.
C11_RatioOutcome ==
    [][(pc = "checks" /\ idx <= Len(order) /\ order[idx] = "code_to_commit_ratio") =>
        LET total == SumSeq(env.languages.languages)
            count == Len(commits)
            applies == env.languages.outcome = "ok" /\ total > 0 /\ count > 0
            delta == IF applies THEN C11_Delta(total, count) ELSE 0
        IN  /\ score' = score - delta
            /\ IF delta = 0 THEN red_flags' = red_flags
               ELSE /\ Len(red_flags') = Len(red_flags) + 1
                    /\ SubSeq(red_flags', 1, Len(red_flags)) = red_flags
                    /\ red_flags'[Len(red_flags')].msg = C11_Message(delta)]_vars

\* Size 600,000 with 10 commits got the "likely copy-pasted" flag.
C11_Witness ==
    /\ pc = "checks"
    /\ idx = 4
    /\ Len(commits) = 10
    /\ env.languages.outcome = "ok"
    /\ SumSeq(env.languages.languages) = 600000
    /\ red_flags # <<>>
    /\ red_flags[Len(red_flags)].msg = "Extreme code-to-commit ratio - likely copy-pasted"

\* ------------------------------------------------ README specification
\* Every answer of the main branch against every answer of the master
\* branch, the master branch serving each of the README texts as well.
ReadmeEnvs ==
    {Env(r, c, l, m1, m2, ct) :
        r \in {[outcome |-> "ok", data |-> d] : d \in {LegitData, ScamData}},
        c \in {[outcome |-> "ok", commits |-> MkCommits(30, 2, TRUE, 10)]},
        l \in {[outcome |-> "ok", languages |-> <<1000>>]},
        m1 \in ReadmeResponses,
        m2 \in ReadmeResponses,
        ct \in {[outcome |-> "ok", items |-> {}]}}

InitReadme ==
    /\ InitScanner
    /\ repo_url = U_plain
    /\ env \in ReadmeEnvs
    /\ order = CanonicalOrder

SpecReadme == InitReadme /\ [][Next]_vars

ReadmeContentMessages ==
    {"Heavy funding-seeking language in README (N instances)",
     "Funding-seeking language detected in README",
     "Token sale/ICO language detected - potential scam",
     "Very short README - insufficient documentation"}

\* The flags the content checks give a README text served by the main branch.
MainBranchFlags(text) ==
    ReadmeContentChecks([score |-> 100, red_flags |-> <<>>, requests |-> <<>>], text).red_flags

\* C12: when the main attempt failed and the master branch serves the
\* README, the README content flags are those the same text gets when
\* the main branch serves it.
C12_BranchIndependent ==
    (ReadmeCheckDone /\ env.readme_main.outcome # "ok" /\ env.readme_master.outcome = "ok") =>
        {f \in Messages(red_flags) : f \in ReadmeContentMessages}
            = Messages(MainBranchFlags(env.readme_master.text))

\* ------------------------------------------- repeated-call specification
\* check_commit_patterns invoked twice on the same scanner, then the other
\* checks: the methods are public and keep no record of having run.
TwiceOrder == <<"commit_patterns">> \o CanonicalOrder

TwiceEnvs ==
    {Env(r, c, l, m1, m2, ct) :
        r \in {[outcome |-> "ok", data |-> d] : d \in {LegitData, ScamData}},
        c \in CommitResponses \cup {[outcome |-> "ok", commits |-> MkCommits(2, 1, TRUE, 400)]},
        l \in {[outcome |-> "ok", languages |-> <<1000>>]},
        m1 \in {[outcome |-> "ok", text |-> Text({}, 1000)]},
        m2 \in {[outcome |-> "status", text |-> Text({}, 0)]},
        ct \in {[outcome |-> "ok", items |-> {}]}}

InitTwice ==
    /\ InitScanner
    /\ repo_url = U_plain
    /\ env \in TwiceEnvs
    /\ order = TwiceOrder

SpecTwice == InitTwice /\ [][Next]_vars

\* check_commit_patterns has run once on a fresh scanner and is called again.
SecondRunNext ==
    /\ pc = "checks"
    /\ idx = 2
    /\ order[1] = "commit_patterns"
    /\ order[2] = "commit_patterns"

\* C13: the second run of check_commit_patterns on the same commit list
\* subtracts from the score what the first run subtracted from 100, and
\* appends the flags of the first run again.
C13_SecondRunRepeats ==
    [][SecondRunNext =>
        /\ score' = score - (100 - score)
        /\ red_flags' = red_flags \o red_flags]_vars

\* After two runs on 2 commits, the last 400 days old: four flags, 100 - 2 * 65.
C13_Witness ==
    /\ pc = "checks"
    /\ idx = 3
    /\ order[1] = "commit_patterns"
    /\ order[2] = "commit_patterns"
    /\ Len(commits) = 2
    /\ Len(red_flags) = 4
    /\ red_flags[1] = red_flags[3]
    /\ red_flags[2] = red_flags[4]
    /\ score = 100 - 2 * 65

\* The flags a step appended.
NewFlags == SubSeq(red_flags', Len(red_flags) + 1, Len(red_flags'))

\* C14: in a scan the score never exceeds 100; a check only appends flags,
\* and lowers the score by the sum of the deltas of the flags it appends,
\* each delta above zero, so the score never rises between checks; and a
\* returned result has no flag exactly when its score is 100.
C14_FlagsPairDeltas ==
    /\ [](score <= 100)
    /\ [](Succeeded => (result.red_flags = <<>> <=> result.score = 100))
    /\ [][pc = "checks" =>
            /\ Len(red_flags') >= Len(red_flags)
            /\ SubSeq(red_flags', 1, Len(red_flags)) = red_flags
            /\ \A i \in 1..Len(NewFlags) : DeltaOf(NewFlags[i].msg) > 0
            /\ score - score' = SumDeltas(NewFlags)
            /\ score' <= score
            /\ (score' < score <=> NewFlags # <<>>)]_vars

\* A scan with three flags or more returned a score above zero.
C14_Witness ==
    /\ Succeeded
    /\ Len(result.red_flags) >= 3
    /\ result.score > 0
    /\ result.score < 100

====
